---- MODULE Spec2Model ----
(***************************************************************************)
(* Order / cart stock-reservation workflow of the e-commerce backend.      *)
(*                                                                         *)
(* The store is a relational database with READ COMMITTED transactions.    *)
(* Each HTTP request is an async handler; it advances one store round trip *)
(* (one `await`) at a time, and requests interleave at those points.  An   *)
(* action below is one round trip together with the synchronous code that  *)
(* follows it up to the next `await` or to the response.                   *)
(***************************************************************************)
EXTENDS Integers, Sequences, FiniteSets, TLC

\* ---------------------------------------------------------------- bounds
MaxReq == 3
MaxInFlight == 2
NumUsers == 2
NumProducts == 1
InitStock == 3
MaxQty == 2
UnitPrice == 100
LowStock == 1

Reqs == 1..MaxReq
Users == 1..NumUsers
Products == 1..NumProducts
\* request inputs: one email and one product id resolve to nothing
Emails == 1..(NumUsers + 1)
ProductIds == 1..(NumProducts + 1)
\* POST /placeOrder runs `validate`: quantity is an integer >= 1
OrderQtys == 1..MaxQty
\* the cart routes declare validators but never run them: any integer arrives
CartQtys == (-1)..MaxQty
\* ids a request can name: the other requests created at most MaxReq - 1 rows
RowIds == 1..(MaxReq - 1)

NULL == 0
NoWrite == -1

VARIABLES
    stock,        \* Products.stock, committed value, per product id
    price,        \* Products.price, per product id
    orders,       \* committed rows of Orders
    nextOrderId,  \* Orders id sequence
    carts,        \* rows of Carts
    nextCartId,   \* Carts id sequence
    categories,   \* rows of Categories
    nextCategoryId, \* Categories id sequence
    pc,           \* position of each request's handler
    req,          \* each request's inputs (body / params)
    loc,          \* each handler's local variables
    txn,          \* state of the transaction `t` each placeOrder opened
    pend,         \* uncommitted writes of each transaction
    resp,         \* response sent by each request
    hist          \* history: the requests that were in progress while a request ran,
                  \* and whether an update asked for more than the stock it read

vars == <<stock, price, orders, nextOrderId, carts, nextCartId,
          categories, nextCategoryId, pc, req, loc, txn, pend, resp, hist>>

catalog == <<categories, nextCategoryId>>

store == <<stock, price, orders, nextOrderId, carts, nextCartId, catalog>>

\* ---------------------------------------------------------------- helpers
NoReq == [kind |-> "none", email |-> NULL, productId |-> NULL, quantity |-> 0,
          rowId |-> NULL, complete |-> TRUE, failInsert |-> FALSE,
          price |-> NULL, stock |-> NULL]
NoLoc == [userId |-> NULL, stock |-> 0, amount |-> 0, rowId |-> NULL, quantity |-> 0,
          price |-> 0, code |-> <<>>]
NoPend == [productId |-> NULL, stock |-> NoWrite, order |-> [id |-> NULL]]
NoResp == [code |-> 0, msg |-> "", body |-> NULL]
NoHist == [overlap |-> {}, short |-> FALSE, several |-> FALSE]

Reply(code, msg) == [code |-> code, msg |-> msg, body |-> NULL]
ReplyWith(code, msg, body) == [code |-> code, msg |-> msg, body |-> body]

\* the bodies the routes accept
PlaceRequests ==
    {[NoReq EXCEPT !.kind = "place", !.email = e, !.productId = p, !.quantity = q,
                   !.complete = c, !.failInsert = f] :
        e \in Emails, p \in ProductIds, q \in OrderQtys, c \in BOOLEAN, f \in BOOLEAN}
CancelRequests ==
    {[NoReq EXCEPT !.kind = "cancel", !.email = e, !.rowId = o] :
        e \in Emails, o \in RowIds}
AddRequests ==
    {[NoReq EXCEPT !.kind = "add", !.email = e, !.productId = p, !.quantity = q] :
        e \in Emails, p \in ProductIds, q \in CartQtys}
UpdateRequests ==
    {[NoReq EXCEPT !.kind = "update", !.email = e, !.productId = p, !.quantity = q] :
        e \in Emails, p \in ProductIds, q \in CartQtys}
RemoveRequests ==
    {[NoReq EXCEPT !.kind = "remove", !.email = e, !.rowId = c] :
        e \in Emails, c \in RowIds}
OrdersRequests ==
    {[NoReq EXCEPT !.kind = "orders", !.email = e] : e \in Emails}
OrderRequests ==
    {[NoReq EXCEPT !.kind = "order", !.email = e, !.rowId = o] :
        e \in Emails, o \in RowIds}
\* PUT /product/updateProduct/:id: price and stock are optional (NULL when absent)
RaisedPrice == UnitPrice + 1
ProductRequests ==
    {[NoReq EXCEPT !.kind = "product", !.productId = p, !.price = c, !.stock = k] :
        p \in ProductIds, c \in {NULL, RaisedPrice}, k \in {NULL, InitStock}}
\* GET /cart/getallCart?email=: the query string may carry no email
ItemsRequests ==
    {[NoReq EXCEPT !.kind = "items", !.email = e] : e \in Emails \cup {NULL}}

\* n.toString(): the decimal digits of n >= 0
RECURSIVE NumberToString(_)
NumberToString(n) == IF n < 10 THEN <<n>> ELSE NumberToString(n \div 10) \o <<n % 10>>

\* s.padStart(len, fill)
RECURSIVE PadStart(_, _, _)
PadStart(s, len, fill) == IF Len(s) >= len THEN s ELSE PadStart(<<fill>> \o s, len, fill)

\* parseInt(s, 10) of a digit string
RECURSIVE ParseInt(_)
ParseInt(s) ==
    IF s = <<>> THEN 0
    ELSE ParseInt(SubSeq(s, 1, Len(s) - 1)) * 10 + s[Len(s)]

\* a code padded to two digits only
CategoryIdOfShort(n) == <<"C">> \o PadStart(NumberToString(n), 2, 0)

\* `C${n.toString().padStart(3, '0')}`: the letter C, then the digits
CategoryIdOf(n) == <<"C">> \o PadStart(NumberToString(n), 3, 0)

\* the numbers of the categories a table may start with
SeedCategories == {0, 9, 99, 999}

\* User.findOne({ where: { email } }): the user's id, or NULL
UserByEmail(email) == IF email \in Users THEN email ELSE NULL

\* Product.findOne({ where: { id } }) found a row
ProductExists(id) == id \in Products

InProgress(r) == pc[r] \notin {"idle", "done"}

\* the row lock of product p is held by another open transaction that wrote it
RowLocked(p, r) ==
    \E o \in Reqs \ {r} :
        /\ txn[o] = "open"
        /\ pend[o].stock # NoWrite
        /\ pend[o].productId = p

\* the handler returns res.status(code).json(...); the request object is gone
Respond(r, reply) ==
    /\ pc' = [pc EXCEPT ![r] = "done"]
    /\ resp' = [resp EXCEPT ![r] = reply]
    /\ loc' = [loc EXCEPT ![r] = NoLoc]

\* the handler goes on to its next await with locals l
Goto(r, label, l) ==
    /\ pc' = [pc EXCEPT ![r] = label]
    /\ loc' = [loc EXCEPT ![r] = l]
    /\ UNCHANGED resp

\* what is left of the request object q once the response is sent
Closed(q) == [NoReq EXCEPT !.kind = q.kind]
\* ... once the user lookup found nobody: the email that resolved to no user
Unknown(q) == [NoReq EXCEPT !.kind = q.kind, !.email = q.email]
\* ... once the user is resolved: req.email and the shipping fields are not read again
Resolved(q) == [q EXCEPT !.email = NULL, !.complete = TRUE]

Fresh ==
    /\ price = [p \in Products |-> UnitPrice]
    /\ orders = {}
    /\ nextOrderId = 1
    /\ carts = {}
    /\ nextCartId = 1
    /\ pc = [r \in Reqs |-> "idle"]
    /\ req = [r \in Reqs |-> NoReq]
    /\ loc = [r \in Reqs |-> NoLoc]
    /\ txn = [r \in Reqs |-> "none"]
    /\ pend = [r \in Reqs |-> NoPend]
    /\ resp = [r \in Reqs |-> NoResp]
    /\ hist = [r \in Reqs |-> NoHist]

\* the catalog holds every product with its full stock; nothing was requested yet
Init ==
    /\ stock = [p \in Products |-> InitStock]
    /\ categories = {}
    /\ nextCategoryId = 1
    /\ Fresh

\* the same, with products the catalog has set to a low stock as well
InitCart ==
    /\ stock \in [Products -> {LowStock, InitStock}]
    /\ categories = {}
    /\ nextCategoryId = 1
    /\ Fresh

\* the Categories table after n categories were created and all but the last
\* deleted; n = 0 is the empty table
InitCategory ==
    /\ stock = [p \in Products |-> InitStock]
    /\ \E n \in SeedCategories :
          /\ categories = IF n = 0 THEN {}
                          ELSE {[id |-> n, categoryId |-> CategoryIdOf(n)]}
          /\ nextCategoryId = n + 1
    /\ Fresh

\* request r reaches its route: ids are handed out in order, at most MaxInFlight
\* requests are being handled at once
Enter(r) ==
    /\ pc[r] = "idle"
    /\ \A o \in Reqs : o < r => pc[o] # "idle"
    /\ Cardinality({o \in Reqs : InProgress(o)}) < MaxInFlight
    /\ hist' = [o \in Reqs |->
          IF o = r
             THEN [NoHist EXCEPT !.overlap = {x \in Reqs \ {r} : InProgress(x)}]
             ELSE IF InProgress(o)
                     THEN [hist[o] EXCEPT !.overlap = @ \cup {r}]
                     ELSE hist[o]]

\* ------------------------------------------------ orderController.placeOrder
\* POST /order/placeOrder passed `validate`; the handler calls sequelize.transaction()
PlaceOrderArrive(r) ==
    /\ Enter(r)
    /\ \E q \in PlaceRequests :
          /\ req' = [req EXCEPT ![r] = q]
    /\ pc' = [pc EXCEPT ![r] = "place"]
    /\ UNCHANGED <<store, loc, txn, pend, resp>>

\* POST /order/placeOrder failed `validate` (no email, or quantity not an
\* integer >= 1): the middleware answers 400 and the handler never runs
PlaceOrderInvalid(r) ==
    /\ Enter(r)
    /\ Respond(r, Reply(400, "errors"))
    /\ req' = [req EXCEPT ![r] = [NoReq EXCEPT !.kind = "place"]]
    /\ UNCHANGED <<store, txn, pend>>

\* a required-fields check that lets every body through
MissingFieldsNever(q) == FALSE

\* !email || !productId || !quantity || !address || ... || !courierName
MissingFields(q) == ~q.complete

\* const t = await sequelize.transaction(); then the required-fields check;
\* hist notes a refused body whose email and product are unknown as well
PlaceOrderBegin(r) ==
    /\ pc[r] = "place"
    /\ txn' = [txn EXCEPT ![r] = "open"]
    /\ IF MissingFields(req[r])
          THEN /\ Respond(r, Reply(400, "All fields are required"))
               /\ req' = [req EXCEPT ![r] = Closed(req[r])]
          ELSE /\ Goto(r, "place_user", NoLoc)
               /\ UNCHANGED req
    /\ hist' = [hist EXCEPT ![r].several =
                   /\ ~req[r].complete
                   /\ UserByEmail(req[r].email) = NULL
                   /\ ~ProductExists(req[r].productId)]
    /\ UNCHANGED <<store, pend>>

\* const user = await User.findOne({ where: { email }, transaction: t })
PlaceOrderFindUser(r) ==
    /\ pc[r] = "place_user"
    /\ LET u == UserByEmail(req[r].email) IN
          IF u = NULL
             THEN /\ Respond(r, Reply(404, "User not found"))
                  /\ req' = [req EXCEPT ![r] = Unknown(req[r])]
             ELSE /\ Goto(r, "place_product", [loc[r] EXCEPT !.userId = u])
                  /\ req' = [req EXCEPT ![r] = Resolved(req[r])]
    /\ UNCHANGED <<store, txn, pend, hist>>

\* a stock check that lets a quantity one above the stock through
InsufficientStockLax(available, quantity) == available < quantity - 1

\* the stock check of placeOrder: product.stock < quantity
InsufficientStock(available, quantity) == available < quantity

\* a 400 that quotes the requested quantity instead of the stock
StockMessageOfQuantity(available, quantity) ==
    ReplyWith(400, "Only N items left in stock", quantity)

\* res.status(400).json({ message: `Only ${product.stock} items left in stock` })
StockMessage(available, quantity) ==
    ReplyWith(400, "Only N items left in stock", available)

\* const product = await Product.findOne(...) (outside t: reads committed data),
\* the stock check, totalAmount and the in-memory product.stock -= quantity
PlaceOrderFindProduct(r) ==
    /\ pc[r] = "place_product"
    /\ LET p == req[r].productId
           q == req[r].quantity IN
          IF ~ProductExists(p)
             THEN /\ Respond(r, Reply(404, "Product not found"))
                  /\ req' = [req EXCEPT ![r] = Closed(req[r])]
             ELSE IF InsufficientStock(stock[p], q)
                     THEN /\ Respond(r, StockMessage(stock[p], q))
                          /\ req' = [req EXCEPT ![r] = Closed(req[r])]
                     ELSE /\ Goto(r, "place_save",
                                  [loc[r] EXCEPT !.amount = price[p] * q,
                                                 !.stock = stock[p] - q])
                          /\ UNCHANGED req
    /\ UNCHANGED <<store, txn, pend, hist>>

\* await product.save({ transaction: t }): UPDATE Products SET stock = <value>;
\* waits for the row lock while another open transaction has written the row
PlaceOrderSave(r) ==
    /\ pc[r] = "place_save"
    /\ ~RowLocked(req[r].productId, r)
    /\ pend' = [pend EXCEPT ![r].productId = req[r].productId, ![r].stock = loc[r].stock]
    /\ Goto(r, "place_create", loc[r])
    /\ UNCHANGED <<store, req, txn, hist>>

\* an insert that stores the unit price as the total
NewOrderUnitPrice(id, userId, productId, quantity, totalAmount) ==
    [id |-> id, userId |-> userId, productId |-> productId, quantity |-> quantity,
     totalAmount |-> price[productId], status |-> "Pending"]

\* the row Order.create inserts
NewOrder(id, userId, productId, quantity, totalAmount) ==
    [id |-> id, userId |-> userId, productId |-> productId, quantity |-> quantity,
     totalAmount |-> totalAmount, status |-> "Pending"]

\* what the catch block of placeOrder does to the transaction: nothing
CatchTxn(state) == state

\* const order = await Order.create({...}, { transaction: t }); a rejected insert
\* throws into the catch block, which answers 500
PlaceOrderCreate(r) ==
    /\ pc[r] = "place_create"
    /\ IF req[r].failInsert
          THEN /\ Respond(r, Reply(500, "Internal server error"))
               /\ req' = [req EXCEPT ![r] = Closed(req[r])]
               /\ txn' = [txn EXCEPT ![r] = CatchTxn(txn[r])]
               /\ UNCHANGED <<nextOrderId, pend>>
          ELSE /\ pend' = [pend EXCEPT ![r].order =
                              NewOrder(nextOrderId, loc[r].userId, req[r].productId,
                                       req[r].quantity, loc[r].amount)]
               /\ nextOrderId' = nextOrderId + 1
               /\ Goto(r, "place_commit", loc[r])
               /\ UNCHANGED <<txn, req>>
    /\ UNCHANGED <<stock, price, orders, carts, nextCartId, hist, catalog>>

\* await t.commit(); return res.status(201).json({ message, order })
PlaceOrderCommit(r) ==
    /\ pc[r] = "place_commit"
    /\ stock' = [stock EXCEPT ![pend[r].productId] = pend[r].stock]
    /\ orders' = orders \cup {pend[r].order}
    /\ txn' = [txn EXCEPT ![r] = "committed"]
    /\ pend' = [pend EXCEPT ![r] = NoPend]
    /\ Respond(r, ReplyWith(201, "Order placed successfully", pend[r].order.id))
    /\ req' = [req EXCEPT ![r] = Closed(req[r])]
    /\ UNCHANGED <<price, nextOrderId, carts, nextCartId, hist, catalog>>

\* ------------------------------------------- orderController.cancelOrderById
\* PUT /order/cancelOrder/:email/:orderId;
\* const user = await User.findOne({ where: { email } })
CancelOrderBegin(r) ==
    /\ Enter(r)
    /\ \E q \in CancelRequests :
          /\ LET u == UserByEmail(q.email) IN
                IF u = NULL
                   THEN /\ Respond(r, Reply(404, "User not found with the given email"))
                        /\ req' = [req EXCEPT ![r] = Unknown(q)]
                   ELSE /\ Goto(r, "cancel_order", [NoLoc EXCEPT !.userId = u])
                        /\ req' = [req EXCEPT ![r] = Resolved(q)]
    /\ UNCHANGED <<store, txn, pend>>

\* a lookup by id alone, whoever owns the order
OrdersOfAnyUser(id, userId) == {o \in orders : o.id = id}

\* Order.findOne({ where: { id: orderId, userId: user.id } })
OrdersOf(id, userId) == {o \in orders : o.id = id /\ o.userId = userId}

\* an already-cancelled check that compares against a misspelt status
AlreadyCancelledTypo(found) == \E o \in found : o.status = "Canceled"

\* if (order.status === "Cancelled")
AlreadyCancelled(found) == \E o \in found : o.status = "Cancelled"

\* const order = await Order.findOne(...); the not-found and already-cancelled checks
CancelOrderFindOrder(r) ==
    /\ pc[r] = "cancel_order"
    /\ LET found == OrdersOf(req[r].rowId, loc[r].userId) IN
          IF found = {}
             THEN /\ Respond(r, Reply(404, "Order not found for the given email and orderId"))
                  /\ req' = [req EXCEPT ![r] = Closed(req[r])]
             ELSE IF AlreadyCancelled(found)
                     THEN /\ Respond(r, Reply(400, "Order is already cancelled"))
                          /\ req' = [req EXCEPT ![r] = Closed(req[r])]
                     ELSE /\ Goto(r, "cancel_update", loc[r])
                          /\ UNCHANGED req
    /\ UNCHANGED <<store, txn, pend, hist>>

\* an update that also clears the total of the cancelled order
CancelRowsRefunded(id, userId) ==
    {IF o.id = id /\ o.userId = userId
        THEN [o EXCEPT !.status = "Cancelled", !.totalAmount = 0] ELSE o
        : o \in orders}

\* an update that writes a status outside the order state machine
CancelRowsShipped(id, userId) ==
    {IF o.id = id /\ o.userId = userId THEN [o EXCEPT !.status = "Shipped"] ELSE o
        : o \in orders}

\* Order.update({ status: "Cancelled" }, { where: { id, userId } }) on the rows
CancelRows(id, userId) ==
    {IF o.id = id /\ o.userId = userId THEN [o EXCEPT !.status = "Cancelled"] ELSE o
        : o \in orders}

\* a cancellation that gives the cancelled quantity back to the product
CancelStockRestore(id, userId) ==
    [p \in Products |->
        IF \E o \in OrdersOf(id, userId) : o.productId = p
           THEN stock[p] + (CHOOSE o \in OrdersOf(id, userId) : o.productId = p).quantity
           ELSE stock[p]]

\* the stock after cancelOrderById's update: the handler never writes Products
CancelStock(id, userId) == stock

\* await Order.update(...); return res.status(200).json({ message, orderId, userEmail })
CancelOrderUpdate(r) ==
    /\ pc[r] = "cancel_update"
    /\ orders' = CancelRows(req[r].rowId, loc[r].userId)
    /\ stock' = CancelStock(req[r].rowId, loc[r].userId)
    /\ Respond(r, ReplyWith(200, "Order cancelled successfully", req[r].rowId))
    /\ req' = [req EXCEPT ![r] = Closed(req[r])]
    /\ UNCHANGED <<price, nextOrderId, carts, nextCartId, txn, pend, hist, catalog>>

\* ------------------------------------------ categoryController.createCategory
\* Category.findOne({ order: [['id', 'DESC']] }): the rows with the highest id
LastCategory == {c \in categories : \A d \in categories : d.id <= c.id}

\* let newCategoryId = "C001"; if (lastCategory) the number after the C of its
\* code, plus one, formatted again
NewCategoryId(last) ==
    IF last = {} THEN <<"C", 0, 0, 1>>
    ELSE LET c == CHOOSE x \in last : TRUE IN
            CategoryIdOf(ParseInt(Tail(c.categoryId)) + 1)

\* POST /category/addCategory with a body categoryValidation rejects:
\* if (!errors.isEmpty()) return res.status(400).json({ errors })
CreateCategoryInvalid(r) ==
    /\ Enter(r)
    /\ Respond(r, Reply(400, "errors"))
    /\ req' = [req EXCEPT ![r] = [NoReq EXCEPT !.kind = "category"]]
    /\ UNCHANGED <<store, txn, pend>>

\* POST /category/addCategory; const lastCategory = await Category.findOne(...)
CreateCategoryBegin(r) ==
    /\ Enter(r)
    /\ Goto(r, "category_check", [NoLoc EXCEPT !.code = NewCategoryId(LastCategory)])
    /\ req' = [req EXCEPT ![r] = [NoReq EXCEPT !.kind = "category"]]
    /\ UNCHANGED <<store, txn, pend>>

\* a lookup that never finds a category
ExistingCategoryNone(code) == {}

\* Category.findOne({ where: { categoryId: newCategoryId } })
ExistingCategory(code) == {c \in categories : c.categoryId = code}

\* const existingCategory = await Category.findOne(...); if found, 400
CreateCategoryCheck(r) ==
    /\ pc[r] = "category_check"
    /\ IF ExistingCategory(loc[r].code) # {}
          THEN Respond(r, Reply(400, "Category already existed"))
          ELSE Goto(r, "category_create", loc[r])
    /\ UNCHANGED <<store, req, txn, pend, hist>>

\* INSERT INTO Categories: the table accepts a code another row already carries
InsertCategory(id, code) == categories \cup {[id |-> id, categoryId |-> code]}

\* const newCategory = await Category.create({ categoryId: newCategoryId, ... });
\* return res.status(201)
CreateCategoryInsert(r) ==
    /\ pc[r] = "category_create"
    /\ categories' = InsertCategory(nextCategoryId, loc[r].code)
    /\ nextCategoryId' = nextCategoryId + 1
    /\ Respond(r, ReplyWith(201, "Category created successfully", nextCategoryId))
    /\ UNCHANGED <<stock, price, orders, nextOrderId, carts, nextCartId,
                   req, txn, pend, hist>>

\* -------------------------------------- categoryController.deleteCategoryById
\* DELETE /category/deleteCategory/:id, for an id in the table or the next
\* unused one; const category = await Category.findOne({ where: { id } })
DeleteCategoryBegin(r) ==
    /\ Enter(r)
    /\ \E id \in {c.id : c \in categories} \cup {nextCategoryId} :
          IF \E c \in categories : c.id = id
             THEN Goto(r, "category_destroy", [NoLoc EXCEPT !.rowId = id])
             ELSE Respond(r, Reply(404, "Category not found"))
    /\ req' = [req EXCEPT ![r] = [NoReq EXCEPT !.kind = "uncategory"]]
    /\ UNCHANGED <<store, txn, pend>>

\* await Category.destroy({ where: { id: categoryId } }); return res.status(200)
DeleteCategoryDestroy(r) ==
    /\ pc[r] = "category_destroy"
    /\ categories' = {c \in categories : c.id # loc[r].rowId}
    /\ Respond(r, Reply(200, "Category deleted successfully"))
    /\ UNCHANGED <<stock, price, orders, nextOrderId, carts, nextCartId,
                   nextCategoryId, req, txn, pend, hist>>

\* -------------------------------------------- productController.updateProduct
\* const product = await Product.findByPk(id)
UpdateProductBegin(r) ==
    /\ Enter(r)
    /\ \E q \in ProductRequests :
          IF ~ProductExists(q.productId)
             THEN /\ Respond(r, Reply(404, "Product not found"))
                  /\ req' = [req EXCEPT ![r] = Closed(q)]
             ELSE /\ Goto(r, "product_update", NoLoc)
                  /\ req' = [req EXCEPT ![r] = q]
    /\ UNCHANGED <<store, txn, pend>>

\* await product.update({ price: price || product.price, stock: stock ||
\* product.stock, ... }): an UPDATE of the fields that were given, outside any
\* transaction; it waits for the row lock like every write of the row
UpdateProductSave(r) ==
    /\ pc[r] = "product_update"
    /\ ~RowLocked(req[r].productId, r)
    /\ price' = IF req[r].price = NULL THEN price
                ELSE [price EXCEPT ![req[r].productId] = req[r].price]
    /\ stock' = IF req[r].stock = NULL THEN stock
                ELSE [stock EXCEPT ![req[r].productId] = req[r].stock]
    /\ Respond(r, Reply(200, "Product updated successfully"))
    /\ req' = [req EXCEPT ![r] = Closed(req[r])]
    /\ UNCHANGED <<orders, nextOrderId, carts, nextCartId, txn, pend, hist, catalog>>

\* --------------------------------------- orderController.getallOrdersByEmail
\* GET /order/getOrdersByEmail/:email;
\* const user = await User.findOne({ where: { email } })
GetallOrdersByEmailBegin(r) ==
    /\ Enter(r)
    /\ \E q \in OrdersRequests :
          /\ LET u == UserByEmail(q.email) IN
                IF u = NULL
                   THEN /\ Respond(r, Reply(400, "User not found"))
                        /\ req' = [req EXCEPT ![r] = Unknown(q)]
                   ELSE /\ Goto(r, "orders_find", [NoLoc EXCEPT !.userId = u])
                        /\ req' = [req EXCEPT ![r] = Resolved(q)]
    /\ UNCHANGED <<store, txn, pend>>

\* an order listing that answers 200 with an empty list
OrdersReplyEmptyList(found) ==
    ReplyWith(200, "Order History retrieved successfully", Cardinality(found))

\* if (orders.length === 0) 404, else 200 with one entry per order
OrdersReply(found) ==
    IF found = {}
       THEN Reply(404, "No orders found for this user")
       ELSE ReplyWith(200, "Order History retrieved successfully", Cardinality(found))

\* const orders = await Order.findAll({ where: { userId: user.id }, ... })
GetallOrdersByEmailFind(r) ==
    /\ pc[r] = "orders_find"
    /\ Respond(r, OrdersReply({o \in orders : o.userId = loc[r].userId}))
    /\ req' = [req EXCEPT ![r] = Closed(req[r])]
    /\ UNCHANGED <<store, txn, pend, hist>>

\* ---------------------------------------------- orderController.getOrderById
\* GET /order/getOrderById/:email/:orderId;
\* const user = await User.findOne({ where: { email: email }, ... })
GetOrderByIdBegin(r) ==
    /\ Enter(r)
    /\ \E q \in OrderRequests :
          /\ LET u == UserByEmail(q.email) IN
                IF u = NULL
                   THEN /\ Respond(r, Reply(404, "User not found with the given email"))
                        /\ req' = [req EXCEPT ![r] = Unknown(q)]
                   ELSE /\ Goto(r, "order_find", [NoLoc EXCEPT !.userId = u])
                        /\ req' = [req EXCEPT ![r] = Resolved(q)]
    /\ UNCHANGED <<store, txn, pend>>

\* const order = await Order.findOne({ where: { id: orderId, userId: user.id }, ... })
GetOrderByIdFind(r) ==
    /\ pc[r] = "order_find"
    /\ IF OrdersOf(req[r].rowId, loc[r].userId) = {}
          THEN Respond(r, Reply(404, "Order not found for the given email and orderId"))
          ELSE Respond(r, ReplyWith(200, "Order details retrieved successfully",
                                    req[r].rowId))
    /\ req' = [req EXCEPT ![r] = Closed(req[r])]
    /\ UNCHANGED <<store, txn, pend, hist>>

\* ------------------------------------------------ cartController.addToCart
\* Cart.findOne({ where: { userId, productId } }) candidates: no unique index on
\* (userId, productId), so several rows can match and any of them is returned
CartRowsOf(userId, productId) ==
    {c \in carts : c.userId = userId /\ c.productId = productId}

\* a Carts.price value, DECIMAL(10, 2), as a count of hundredths
Cents(n) == n * 100

\* the first digit of the decimal text of n >= 0
RECURSIVE LeadingDigit(_)
LeadingDigit(n) == IF n < 10 THEN n ELSE LeadingDigit(n \div 10)

\* cartItem.price += totalPrice, then the value the column stores.  The driver
\* returns a NUMERIC column as text ("200.00"), so += appends the text of
\* totalPrice ("200.00300"); NUMERIC(10, 2) rounds that text to two decimals:
\* the appended digits only decide whether the last hundredth is rounded away
\* from zero.
PriceAfterAdd(stored, totalPrice) ==
    IF LeadingDigit(totalPrice) >= 5
       THEN (IF stored < 0 THEN stored - 1 ELSE stored + 1)
       ELSE stored

\* the appended text is numeric only when totalPrice has no sign:
\* "100.00-100" is rejected by cartItem.save()
ValidDecimalText(totalPrice) == totalPrice >= 0

\* cartItem.save(): UPDATE Carts SET quantity, price WHERE id
SaveCartRow(id, quantity, amount) ==
    {IF c.id = id THEN [c EXCEPT !.quantity = quantity, !.price = amount] ELSE c
        : c \in carts}

\* POST /cart/addCart: the required-fields check (a quantity of 0 is falsy), then
\* const user = await User.findOne({ where: { email } })
AddToCartBegin(r) ==
    /\ Enter(r)
    /\ \E q \in AddRequests :
          /\ IF q.quantity = 0
                THEN /\ Respond(r, Reply(400, "Email, ProductId, and quantity are required"))
                     /\ req' = [req EXCEPT ![r] = Closed(q)]
                ELSE LET u == UserByEmail(q.email) IN
                        IF u = NULL
                           THEN /\ Respond(r, Reply(404, "User not found"))
                                /\ req' = [req EXCEPT ![r] = Unknown(q)]
                           ELSE /\ Goto(r, "add_product", [NoLoc EXCEPT !.userId = u])
                                /\ req' = [req EXCEPT ![r] = Resolved(q)]
    /\ UNCHANGED <<store, txn, pend>>

\* a stock check that refuses the last items as well
OverStockOrEqual(available, quantity) == available <= quantity

\* the stock check of addToCart: product.stock < requestedQuantity
OverStock(available, quantity) == available < quantity

\* const product = await Product.findOne(...); the stock check and totalPrice
AddToCartFindProduct(r) ==
    /\ pc[r] = "add_product"
    /\ LET p == req[r].productId
           q == req[r].quantity IN
          IF ~ProductExists(p)
             THEN /\ Respond(r, Reply(404, "Product not found"))
                  /\ req' = [req EXCEPT ![r] = Closed(req[r])]
             ELSE IF OverStock(stock[p], q)
                     THEN /\ Respond(r, ReplyWith(400, "Only N items left in stock", stock[p]))
                          /\ req' = [req EXCEPT ![r] = Closed(req[r])]
                     ELSE /\ Goto(r, "add_cart", [loc[r] EXCEPT !.amount = price[p] * q])
                          /\ UNCHANGED req
    /\ UNCHANGED <<store, txn, pend, hist>>

\* let cartItem = await Cart.findOne(...); the in-memory += of quantity and price
AddToCartFindCart(r) ==
    /\ pc[r] = "add_cart"
    /\ LET found == CartRowsOf(loc[r].userId, req[r].productId) IN
          IF found = {}
             THEN Goto(r, "add_create", loc[r])
             ELSE \E c \in found :
                     Goto(r, "add_save",
                          [loc[r] EXCEPT !.rowId = c.id,
                                         !.quantity = c.quantity + req[r].quantity,
                                         !.price = c.price])
    /\ UNCHANGED <<store, req, txn, pend, hist>>

\* await cartItem.save(); return res.status(200).json({ message, cartItem });
\* a rejected price throws into the catch block, which answers 500
AddToCartSave(r) ==
    /\ pc[r] = "add_save"
    /\ IF ValidDecimalText(loc[r].amount)
          THEN /\ carts' = SaveCartRow(loc[r].rowId, loc[r].quantity,
                                       PriceAfterAdd(loc[r].price, loc[r].amount))
               /\ Respond(r, ReplyWith(200, "Product added to cart successfully",
                                       loc[r].rowId))
          ELSE /\ carts' = carts
               /\ Respond(r, Reply(500, "Internal server error"))
    /\ req' = [req EXCEPT ![r] = Closed(req[r])]
    /\ UNCHANGED <<stock, price, orders, nextOrderId, nextCartId, txn, pend, hist, catalog>>

\* an add that takes the quantity out of the product's stock
CartStockReserved(productId, quantity) ==
    [stock EXCEPT ![productId] = @ - quantity]

\* the stock after addToCart stored the row: the handler never writes Products
CartStock(productId, quantity) == stock

\* the row Cart.create inserts
NewCartRow(id, userId, productId, quantity, amount) ==
    [id |-> id, userId |-> userId, productId |-> productId,
     quantity |-> quantity, price |-> Cents(amount)]

\* cartItem = await Cart.create({...}); return res.status(200)
AddToCartCreate(r) ==
    /\ pc[r] = "add_create"
    /\ carts' = carts \cup {NewCartRow(nextCartId, loc[r].userId, req[r].productId,
                                       req[r].quantity, loc[r].amount)}
    /\ nextCartId' = nextCartId + 1
    /\ stock' = CartStock(req[r].productId, req[r].quantity)
    /\ Respond(r, ReplyWith(200, "Product added to cart successfully", nextCartId))
    /\ req' = [req EXCEPT ![r] = Closed(req[r])]
    /\ UNCHANGED <<price, orders, nextOrderId, txn, pend, hist, catalog>>

\* ----------------------------------------- cartController.updateCartQuantity
\* PUT /cart/updateCartQuantity: the required-fields check, then
\* const user = await User.findOne(...)
UpdateCartBegin(r) ==
    /\ Enter(r)
    /\ \E q \in UpdateRequests :
          /\ IF q.quantity = 0
                THEN /\ Respond(r, Reply(400, "Email, productId and quantity are required"))
                     /\ req' = [req EXCEPT ![r] = Closed(q)]
                ELSE LET u == UserByEmail(q.email) IN
                        IF u = NULL
                           THEN /\ Respond(r, Reply(404, "User not found"))
                                /\ req' = [req EXCEPT ![r] = Unknown(q)]
                           ELSE /\ Goto(r, "update_product", [NoLoc EXCEPT !.userId = u])
                                /\ req' = [req EXCEPT ![r] = Resolved(q)]
    /\ UNCHANGED <<store, txn, pend>>

\* const product = await Product.findOne(...)
UpdateCartFindProduct(r) ==
    /\ pc[r] = "update_product"
    /\ LET p == req[r].productId IN
          IF ~ProductExists(p)
             THEN /\ Respond(r, Reply(404, "Product not found"))
                  /\ req' = [req EXCEPT ![r] = Closed(req[r])]
             ELSE /\ Goto(r, "update_cart",
                          [loc[r] EXCEPT !.stock = stock[p], !.amount = price[p]])
                  /\ UNCHANGED req
    /\ UNCHANGED <<store, txn, pend, hist>>

\* a quantity update that adds to the row's quantity
UpdatedQuantityAdded(old, quantity) == old + quantity

\* cartItem.quantity = quantity
UpdatedQuantity(old, quantity) == quantity

\* refusals that check the stock before the cart row
UpdateRefusalStockFirst(found, quantity, available) ==
    IF quantity > available
       THEN ReplyWith(400, "Only N items left in stock", available)
       ELSE IF found = {} THEN Reply(404, "Cart item not found") ELSE NoResp

\* if (!cartItem) 404; if (quantity > product.stock) 400; NoResp when neither
UpdateRefusal(found, quantity, available) ==
    IF found = {}
       THEN Reply(404, "Cart item not found")
       ELSE IF quantity > available
               THEN ReplyWith(400, "Only N items left in stock", available)
               ELSE NoResp

\* const cartItem = await Cart.findOne(...); the not-found check, the stock check
\* against the product read before, the in-memory quantity and price
UpdateCartFindCart(r) ==
    /\ pc[r] = "update_cart"
    /\ LET found == CartRowsOf(loc[r].userId, req[r].productId)
           q == req[r].quantity
           refusal == UpdateRefusal(found, q, loc[r].stock) IN
          IF refusal # NoResp
             THEN /\ Respond(r, refusal)
                  /\ req' = [req EXCEPT ![r] = Closed(req[r])]
             ELSE /\ \E c \in found :
                        Goto(r, "update_save",
                             [loc[r] EXCEPT !.rowId = c.id,
                                            !.quantity = UpdatedQuantity(c.quantity, q),
                                            !.amount = Cents(q * loc[r].amount)])
                  /\ UNCHANGED req
    /\ hist' = [hist EXCEPT ![r].short = req[r].quantity > loc[r].stock]
    /\ UNCHANGED <<store, txn, pend>>

\* await cartItem.save(); return res.status(200).json({ message, cartItem })
UpdateCartSave(r) ==
    /\ pc[r] = "update_save"
    /\ carts' = SaveCartRow(loc[r].rowId, loc[r].quantity, loc[r].amount)
    /\ Respond(r, ReplyWith(200, "Cart item quantity updated successfully", loc[r].rowId))
    /\ req' = [req EXCEPT ![r] = Closed(req[r])]
    /\ UNCHANGED <<stock, price, orders, nextOrderId, nextCartId, txn, pend, hist, catalog>>

\* --------------------------------------------- cartController.removeCartItem
\* DELETE /cart/removeCartItem/:email/:cartId;
\* const user = await User.findOne({ where: { email } })
RemoveCartBegin(r) ==
    /\ Enter(r)
    /\ \E q \in RemoveRequests :
          /\ LET u == UserByEmail(q.email) IN
                IF u = NULL
                   THEN /\ Respond(r, Reply(404, "User not found"))
                        /\ req' = [req EXCEPT ![r] = Unknown(q)]
                   ELSE /\ Goto(r, "remove_cart", [NoLoc EXCEPT !.userId = u])
                        /\ req' = [req EXCEPT ![r] = Resolved(q)]
    /\ UNCHANGED <<store, txn, pend>>

\* a lookup by id alone, whoever owns the row
CartRowOfAnyUser(id, userId) == {c \in carts : c.id = id}

\* Cart.findOne({ where: { id: cartId, userId: user.id } })
CartRowOfUser(id, userId) == {c \in carts : c.id = id /\ c.userId = userId}

\* const cartItem = await Cart.findOne(...); the not-found check
RemoveCartFindCart(r) ==
    /\ pc[r] = "remove_cart"
    /\ IF CartRowOfUser(req[r].rowId, loc[r].userId) # {}
          THEN /\ Goto(r, "remove_destroy", [loc[r] EXCEPT !.rowId = req[r].rowId])
               /\ UNCHANGED req
          ELSE /\ Respond(r, Reply(404, "Cart item not found"))
               /\ req' = [req EXCEPT ![r] = Closed(req[r])]
    /\ UNCHANGED <<store, txn, pend, hist>>

\* await cartItem.destroy(); return res.status(200)
RemoveCartDestroy(r) ==
    /\ pc[r] = "remove_destroy"
    /\ carts' = {c \in carts : c.id # loc[r].rowId}
    /\ Respond(r, Reply(200, "Cart item removed successfully"))
    /\ req' = [req EXCEPT ![r] = Closed(req[r])]
    /\ UNCHANGED <<stock, price, orders, nextOrderId, nextCartId, txn, pend, hist, catalog>>

\* -------------------------------------------- cartController.getallCartItems
\* GET /cart/getallCart: the email check, then
\* const user = await User.findOne({ where: { email } })
GetallCartItemsBegin(r) ==
    /\ Enter(r)
    /\ \E q \in ItemsRequests :
          /\ IF q.email = NULL
                THEN /\ Respond(r, Reply(400, "Email is required"))
                     /\ req' = [req EXCEPT ![r] = Closed(q)]
                ELSE LET u == UserByEmail(q.email) IN
                        IF u = NULL
                           THEN /\ Respond(r, Reply(404, "User not found"))
                                /\ req' = [req EXCEPT ![r] = Unknown(q)]
                           ELSE /\ Goto(r, "items_find", [NoLoc EXCEPT !.userId = u])
                                /\ req' = [req EXCEPT ![r] = Resolved(q)]
    /\ UNCHANGED <<store, txn, pend>>

\* const cartItems = await Cart.findAll({ where: { userId: user.id }, ... });
\* the response carries one entry per row
GetallCartItemsFind(r) ==
    /\ pc[r] = "items_find"
    /\ LET found == {c \in carts : c.userId = loc[r].userId} IN
          IF found = {}
             THEN Respond(r, ReplyWith(200, "Cart is empty", 0))
             ELSE Respond(r, ReplyWith(200, "Cart items retrieved successfully",
                                       Cardinality(found)))
    /\ req' = [req EXCEPT ![r] = Closed(req[r])]
    /\ UNCHANGED <<store, txn, pend, hist>>

\* ------------------------------------------------------------ specifications
PlaceOrderStep(r) ==
    \/ PlaceOrderInvalid(r)
    \/ PlaceOrderArrive(r)
    \/ PlaceOrderBegin(r)
    \/ PlaceOrderFindUser(r)
    \/ PlaceOrderFindProduct(r)
    \/ PlaceOrderSave(r)
    \/ PlaceOrderCreate(r)
    \/ PlaceOrderCommit(r)

ReadOrderStep(r) ==
    \/ GetallOrdersByEmailBegin(r)
    \/ GetallOrdersByEmailFind(r)
    \/ GetOrderByIdBegin(r)
    \/ GetOrderByIdFind(r)

UpdateProductStep(r) ==
    \/ UpdateProductBegin(r)
    \/ UpdateProductSave(r)

CancelOrderStep(r) ==
    \/ CancelOrderBegin(r)
    \/ CancelOrderFindOrder(r)
    \/ CancelOrderUpdate(r)

CartStep(r) ==
    \/ AddToCartBegin(r)
    \/ AddToCartFindProduct(r)
    \/ AddToCartFindCart(r)
    \/ AddToCartSave(r)
    \/ AddToCartCreate(r)
    \/ UpdateCartBegin(r)
    \/ UpdateCartFindProduct(r)
    \/ UpdateCartFindCart(r)
    \/ UpdateCartSave(r)
    \/ RemoveCartBegin(r)
    \/ RemoveCartFindCart(r)
    \/ RemoveCartDestroy(r)

ReadCartStep(r) ==
    \/ GetallCartItemsBegin(r)
    \/ GetallCartItemsFind(r)

\* the routes of the order and cart routers that write the store
Next == \E r \in Reqs : PlaceOrderStep(r) \/ CancelOrderStep(r) \/ CartStep(r)

Spec == Init /\ [][Next]_vars

\* the order router alone
NextOrder == \E r \in Reqs : PlaceOrderStep(r) \/ CancelOrderStep(r) \/ ReadOrderStep(r)

SpecOrder == Init /\ [][NextOrder]_vars

\* the cart router alone
NextCart == \E r \in Reqs : CartStep(r) \/ ReadCartStep(r)

SpecCart == InitCart /\ [][NextCart]_vars

\* the two listing routes, beside the routes that create what they list
NextRead ==
    \E r \in Reqs :
        \/ PlaceOrderStep(r)
        \/ AddToCartBegin(r)
        \/ AddToCartFindProduct(r)
        \/ AddToCartFindCart(r)
        \/ AddToCartSave(r)
        \/ AddToCartCreate(r)
        \/ GetallOrdersByEmailBegin(r)
        \/ GetallOrdersByEmailFind(r)
        \/ ReadCartStep(r)

SpecRead == Init /\ [][NextRead]_vars

\* placing and cancelling orders while the catalog changes price and stock
NextCatalog ==
    \E r \in Reqs : PlaceOrderStep(r) \/ CancelOrderStep(r) \/ UpdateProductStep(r)

SpecCatalog == Init /\ [][NextCatalog]_vars

\* placeOrder alone; every continuation that can run does run in the end (the
\* event loop serves each ready callback, the database answers each query it
\* can answer), and there is no limit on the connections the handlers can take
NextPlace == \E r \in Reqs : PlaceOrderStep(r)

SpecPlace ==
    Init /\ [][NextPlace]_vars /\ \A r \in Reqs : WF_pc(PlaceOrderStep(r))

\* creating and deleting categories
NextCategory ==
    \E r \in Reqs :
        \/ CreateCategoryInvalid(r)
        \/ CreateCategoryBegin(r)
        \/ CreateCategoryCheck(r)
        \/ CreateCategoryInsert(r)
        \/ DeleteCategoryBegin(r)
        \/ DeleteCategoryDestroy(r)

SpecCategory == InitCategory /\ [][NextCategory]_vars

\* ------------------------------------------------------------------ claims
Kind(r) == req[r].kind
Done(r) == pc[r] = "done"
Steps(r) == pc'[r] # pc[r]
Code(r) == resp[r].code

RECURSIVE SumQuantity(_)
SumQuantity(S) ==
    IF S = {} THEN 0
    ELSE LET o == CHOOSE x \in S : TRUE IN o.quantity + SumQuantity(S \ {o})

OrdersFor(p) == {o \in orders : o.productId = p}
OrderById(id) == CHOOSE o \in orders : o.id = id

\* C1: the committed stock of every product, and every stock value a transaction
\* has written, is >= 0 in every reachable state, under any interleaving of the
\* order and cart requests.
StockNonNegative ==
    /\ \A p \in Products : stock[p] >= 0
    /\ \A r \in Reqs : pend[r] # NoPend => pend[r].stock >= 0

\* the stock was drawn down to zero by committed orders while the cart was in use
StockExhausted ==
    /\ \E p \in Products : stock[p] = 0 /\ OrdersFor(p) # {}
    /\ carts # {}

\* C2: a product's persisted stock equals its initial stock minus the sum of the
\* quantities of all orders placed for it, cancelled ones included.
StockIsLedger ==
    \A p \in Products : stock[p] = InitStock - SumQuantity(OrdersFor(p))

\* C3: two placeOrder requests for the same product that ran concurrently and
\* whose quantities together exceed the stock never both respond 201.  (No stock
\* is ever above InitStock, so a sum above InitStock exceeds the stock at the start.)
NoJointOversell ==
    \A a, b \in Reqs :
        ( /\ a # b
          /\ Kind(a) = "place" /\ Done(a) /\ Code(a) = 201
          /\ Kind(b) = "place" /\ Done(b) /\ Code(b) = 201
          /\ b \in hist[a].overlap
          /\ OrderById(resp[a].body).productId = OrderById(resp[b].body).productId )
        => OrderById(resp[a].body).quantity + OrderById(resp[b].body).quantity <= InitStock

\* C4: once placeOrder has answered 500 for a failed order insert, its stock
\* write is rolled back: the transaction is no longer open and holds no write.
FailedInsertRolledBack ==
    \A r \in Reqs :
        (Kind(r) = "place" /\ Done(r) /\ Code(r) = 500)
        => (txn[r] = "rolledback" /\ pend[r] = NoPend)

\* C5: when placeOrder reads a product whose stock is below the requested
\* quantity it answers 400 quoting exactly that stock, and the step (like every
\* earlier step of the request) writes neither stock nor order.
InsufficientStockReply ==
    [][\A r \in Reqs :
          ( /\ pc[r] = "place_product" /\ Steps(r)
            /\ ProductExists(req[r].productId)
            /\ req[r].quantity > stock[req[r].productId] )
          => /\ pc'[r] = "done"
             /\ resp'[r] = [code |-> 400, msg |-> "Only N items left in stock",
                            body |-> stock[req[r].productId]]
             /\ pend[r] = NoPend /\ pend' = pend
             /\ stock' = stock /\ orders' = orders /\ nextOrderId' = nextOrderId]_vars

\* an order was refused for a stock that earlier orders had drawn down
RefusedAfterDrawdown ==
    \E r \in Reqs, p \in Products :
        /\ Kind(r) = "place" /\ Done(r)
        /\ resp[r] = [code |-> 400, msg |-> "Only N items left in stock", body |-> stock[p]]
        /\ stock[p] < InitStock

\* C6: a placeOrder that runs with no other request in progress, for an existing
\* user and product and 1 <= quantity <= stock, and whose insert is accepted:
\* resolves the user from the email, passes the stock check, and on commit answers
\* 201, adds exactly one order (Pending, that user, product, quantity, total =
\* unit price x quantity) and lowers the stock by exactly quantity.
SoloPlaceOrder ==
    [][\A r \in Reqs :
          (Kind(r) = "place" /\ Steps(r) /\ hist[r].overlap = {}) =>
            /\ (pc[r] = "place_user" /\ UserByEmail(req[r].email) # NULL)
                  => (pc'[r] = "place_product" /\ loc'[r].userId = UserByEmail(req[r].email))
            /\ ( /\ pc[r] = "place_product" /\ ProductExists(req[r].productId)
                 /\ req[r].quantity >= 1
                 /\ req[r].quantity <= stock[req[r].productId] )
                  => pc'[r] = "place_save"
            /\ pc[r] = "place_create" /\ ~req[r].failInsert => pc'[r] = "place_commit"
            /\ pc[r] = "place_commit" =>
                  LET p == req[r].productId
                      new == orders' \ orders IN
                    /\ resp'[r].code = 201
                    /\ orders \subseteq orders'
                    /\ Cardinality(new) = 1
                    /\ \A o \in new :
                          /\ resp'[r].body = o.id
                          /\ [o EXCEPT !.id = NULL] =
                                [id |-> NULL, userId |-> loc[r].userId, productId |-> p,
                                 quantity |-> req[r].quantity,
                                 totalAmount |-> price[p] * req[r].quantity,
                                 status |-> "Pending"]
                    /\ stock' = [stock EXCEPT ![p] = stock[p] - req[r].quantity]]_vars

\* an undisturbed order for the whole remaining stock was accepted
SoloOrderTookLastItems ==
    \E r \in Reqs :
        /\ Kind(r) = "place" /\ Done(r) /\ Code(r) = 201 /\ hist[r].overlap = {}
        /\ stock[OrderById(resp[r].body).productId] = 0

\* C7: every order is Pending or Cancelled; an order appears as Pending, never
\* disappears, and once Cancelled stays Cancelled.
OrderLifecycle ==
    [][ /\ \A n \in orders' :
             /\ n.status \in {"Pending", "Cancelled"}
             /\ (\A o \in orders : o.id # n.id) => n.status = "Pending"
        /\ \A o \in orders :
             \E n \in orders' :
                 /\ n.id = o.id
                 /\ [n EXCEPT !.status = o.status] = o
                 /\ (o.status = "Cancelled" => n.status = "Cancelled") ]_vars

\* a cancelled order and a pending one exist side by side
CancelledBesidePending ==
    \E a, b \in orders : a.status = "Cancelled" /\ b.status = "Pending"

\* C8: a cancelOrder by the owner that finds the order Pending goes on to set it
\* Cancelled and answers 200; one that finds it Cancelled answers 400 "Order is
\* already cancelled" and changes nothing.
CancelThenAlreadyCancelled ==
    [][\A r \in Reqs :
          /\ (pc[r] = "cancel_order" /\ Steps(r)) =>
                LET found == OrdersOf(req[r].rowId, loc[r].userId) IN
                  /\ (\E o \in found : o.status = "Pending") => pc'[r] = "cancel_update"
                  /\ (\E o \in found : o.status = "Cancelled") =>
                        /\ pc'[r] = "done"
                        /\ resp'[r] = [code |-> 400, msg |-> "Order is already cancelled",
                                       body |-> NULL]
                        /\ store' = store
          /\ (pc[r] = "cancel_update" /\ Steps(r)) =>
                /\ resp'[r].code = 200
                /\ \A o \in OrdersOf(req[r].rowId, loc[r].userId) :
                      [o EXCEPT !.status = "Cancelled"] \in orders']_vars

\* an order was cancelled with a 200 and a second cancellation of it got the 400
SecondCancelRefused ==
    \E a, b \in Reqs :
        /\ Kind(a) = "cancel" /\ Done(a) /\ Code(a) = 200
        /\ Kind(b) = "cancel" /\ Done(b)
        /\ resp[b] = [code |-> 400, msg |-> "Order is already cancelled", body |-> NULL]

\* C9: no step of a cancelOrder request changes any product's stock.
CancelKeepsStock ==
    [][\A r \in Reqs :
          (Steps(r) /\ (Kind(r) = "cancel" \/ req'[r].kind = "cancel"))
          => stock' = stock]_vars

\* an order was cancelled and its quantity is still missing from the stock
CancelledNotRestocked ==
    \E o \in orders, r \in Reqs :
        /\ Kind(r) = "cancel" /\ Done(r) /\ Code(r) = 200 /\ resp[r].body = o.id
        /\ o.status = "Cancelled"
        /\ stock[o.productId] = InitStock - o.quantity

\* C10: there is at most one cart row per (userId, productId) pair.
OneRowPerPair ==
    \A a, b \in carts :
        (a.userId = b.userId /\ a.productId = b.productId) => a = b

\* C11: an addToCart that runs alone and finds the row that one earlier
\* successful addToCart created with quantity q1 >= 1 (no other request has
\* succeeded), adding q2 >= 1, answers 200 and leaves exactly one row with
\* quantity q1 + q2 and price = unit price x (q1 + q2).
AddTwiceIsAdditive ==
    [][\A r, a \in Reqs :
          ( /\ pc[r] = "add_save" /\ Steps(r) /\ hist[r].overlap = {}
            /\ a # r /\ Kind(a) = "add" /\ Done(a) /\ Code(a) = 200
            /\ resp[a].body = loc[r].rowId
            /\ \A o \in Reqs \ {r, a} : Code(o) # 200
            /\ req[r].quantity >= 1
            /\ \E c \in carts : carts = {c} /\ c.id = loc[r].rowId /\ c.quantity >= 1 )
          => /\ resp'[r].code = 200
             /\ \A c \in carts :
                   carts' = {[c EXCEPT
                                !.quantity = c.quantity + req[r].quantity,
                                !.price = Cents(price[c.productId]
                                                  * (c.quantity + req[r].quantity))]}]_vars

\* C12: the save of an updateCartQuantity answers 200 and sets the row it found to
\* quantity = newQuantity and price = newQuantity x unit price, whatever the row
\* held, and leaves every other row alone.
UpdateSetsAbsolute ==
    [][\A r \in Reqs :
          (pc[r] = "update_save" /\ Steps(r)) =>
            /\ resp'[r].code = 200
            /\ carts' =
                 {IF c.id = loc[r].rowId
                     THEN [c EXCEPT !.quantity = req[r].quantity,
                                    !.price = Cents(req[r].quantity
                                                      * price[req[r].productId])]
                     ELSE c : c \in carts}]_vars

\* a row created by an add was afterwards set to one unit at one unit's price
UpdatedToOneUnit ==
    \E a, r \in Reqs, c \in carts :
        /\ a < r /\ hist[r].overlap = {}
        /\ Kind(a) = "add" /\ Done(a) /\ Code(a) = 200 /\ resp[a].body = c.id
        /\ Kind(r) = "update" /\ Done(r) /\ Code(r) = 200 /\ resp[r].body = c.id
        /\ c.quantity = 1 /\ c.price = Cents(price[c.productId])

CartKinds == {"add", "update", "remove", "items"}

CartQuantityPositive ==
    \A c \in carts : c.quantity >= 1

\* C15: an updateCartQuantity that finds no row for its (user, product) pair
\* answers 404 'Cart item not found' and leaves the cart as it was, also when the
\* quantity exceeds the stock; no step of an update adds a row.
UpdateWithoutRow ==
    [][\A r \in Reqs :
          /\ ( /\ pc[r] = "update_cart" /\ Steps(r)
               /\ CartRowsOf(loc[r].userId, req[r].productId) = {} )
             => /\ pc'[r] = "done"
                /\ resp'[r] = [code |-> 404, msg |-> "Cart item not found", body |-> NULL]
                /\ carts' = carts /\ nextCartId' = nextCartId
          /\ (Steps(r) /\ (Kind(r) = "update" \/ req'[r].kind = "update"))
             => {c.id : c \in carts'} \subseteq {c.id : c \in carts}]_vars

\* an update asking for more than the stock got the 404 for the missing row
UpdateOverStockWithoutRow ==
    \E r \in Reqs :
        /\ Kind(r) = "update" /\ Done(r) /\ hist[r].short
        /\ resp[r] = [code |-> 404, msg |-> "Cart item not found", body |-> NULL]

\* C16: removeCartItem goes on to delete only when a row with that id belongs to
\* the resolved user; otherwise it answers 404 and deletes nothing.  The delete
\* removes exactly the row with that id, and that row is the user's.
RemoveScopedToUser ==
    [][\A r \in Reqs :
          /\ (pc[r] = "remove_cart" /\ Steps(r)) =>
                /\ carts' = carts
                /\ IF \E c \in carts : c.id = req[r].rowId /\ c.userId = loc[r].userId
                      THEN pc'[r] = "remove_destroy"
                      ELSE /\ pc'[r] = "done"
                           /\ resp'[r] = [code |-> 404, msg |-> "Cart item not found",
                                          body |-> NULL]
          /\ (pc[r] = "remove_destroy" /\ Steps(r)) =>
                /\ resp'[r].code = 200
                /\ carts' = {c \in carts : c.id # req[r].rowId}
                /\ \A c \in carts \ carts' : c.userId = loc[r].userId]_vars

\* the last request removed one of the rows the earlier requests had created
RemovedOneRowOfSeveral ==
    \E r \in Reqs :
        /\ r = MaxReq /\ hist[r].overlap = {}
        /\ Kind(r) = "remove" /\ Done(r) /\ Code(r) = 200
        /\ nextCartId = MaxReq
        /\ Cardinality(carts) = MaxReq - 2

\* C17: a cancelOrder naming an order of another user than the one resolved from
\* its email answers 404 and changes no order; whenever an order's status
\* changes, the step is the update of a request resolved to the order's owner.
CancelScopedToOwner ==
    [][ /\ \A r \in Reqs :
             ( /\ pc[r] = "cancel_order" /\ Steps(r)
               /\ \E o \in orders : o.id = req[r].rowId /\ o.userId # loc[r].userId )
             => /\ pc'[r] = "done"
                /\ resp'[r] = [code |-> 404,
                               msg |-> "Order not found for the given email and orderId",
                               body |-> NULL]
                /\ orders' = orders
        /\ \A o \in orders, n \in orders' :
             (n.id = o.id /\ n.status # o.status)
             => \E r \in Reqs :
                   /\ pc[r] = "cancel_update" /\ Steps(r)
                   /\ req[r].rowId = o.id
                   /\ loc[r].userId = o.userId ]_vars

\* every order id a request can name exists, all are still Pending, and the
\* last request, a cancelOrder that ran alone, was answered 404 for the order
ForeignCancelRefused ==
    \E r \in Reqs :
        /\ r = MaxReq /\ hist[r].overlap = {}
        /\ Kind(r) = "cancel" /\ Done(r)
        /\ resp[r] = [code |-> 404,
                      msg |-> "Order not found for the given email and orderId",
                      body |-> NULL]
        /\ {o.id : o \in orders} = RowIds
        /\ \A o \in orders : o.status = "Pending"

UnknownEmailIs404 ==
    \A r \in Reqs :
        (Done(r) /\ req[r].email # NULL /\ UserByEmail(req[r].email) = NULL)
        => Code(r) = 404

\* C20: a placeOrder answered 400 for a missing field has begun no transaction.
InvalidOrderOpensNothing ==
    \A r \in Reqs :
        ( /\ Kind(r) = "place" /\ Done(r) /\ Code(r) = 400
          /\ resp[r].msg \in {"errors", "All fields are required"} )
        => txn[r] = "none"

\* C21: from one state to the next every order is still there with the same
\* userId, productId, quantity and totalAmount, whatever request took the step
\* (cancellation, another order, a change of the product's price or stock).
OrderFieldsFrozen ==
    [][\A o \in orders :
          \E n \in orders' :
              /\ n.id = o.id
              /\ n.userId = o.userId
              /\ n.productId = o.productId
              /\ n.quantity = o.quantity
              /\ n.totalAmount = o.totalAmount]_vars

\* a cancelled order still carries the total of the price it was placed at,
\* after the product's price was raised
CancelledAtOldPrice ==
    \E o \in orders :
        /\ o.status = "Cancelled"
        /\ price[o.productId] = RaisedPrice
        /\ o.totalAmount = UnitPrice * o.quantity

\* C22: the code createCategory computes is C001 when the table is empty;
\* otherwise it is the letter C followed by the number of the code of the
\* category with the highest id, plus one, written with at least three digits
\* and with leading zeros only to fill three digits.
CategoryCodeSequence ==
    [][\A r \in Reqs :
          (pc[r] = "idle" /\ pc'[r] = "category_check") =>
            LET code == loc'[r].code
                digits == Tail(code) IN
              IF categories = {}
                 THEN code = <<"C", 0, 0, 1>>
                 ELSE \A c \in categories :
                        (\A d \in categories : d.id <= c.id) =>
                          /\ Head(code) = "C"
                          /\ ParseInt(digits) = ParseInt(Tail(c.categoryId)) + 1
                          /\ Len(digits) >= 3
                          /\ (Len(digits) > 3 => digits[1] # 0)]_vars

\* the code C010 was given to the category created after C009
TenthCategoryCreated ==
    \E c, d \in categories :
        /\ c.categoryId = <<"C", 0, 0, 9>>
        /\ d.categoryId = <<"C", 0, 1, 0>>
        /\ d.id > c.id

\* C23: the lookup before the insert refuses a code that a category carries at
\* the time of the lookup and lets every other code through to the insert, so
\* two requests that both look up before either inserts both insert the code.
CategoryLookupRefuses ==
    [][\A r \in Reqs :
          (pc[r] = "category_check" /\ Steps(r)) =>
            /\ categories' = categories
            /\ IF \E c \in categories : c.categoryId = loc[r].code
                  THEN /\ pc'[r] = "done"
                       /\ resp'[r] = [code |-> 400, msg |-> "Category already existed",
                                      body |-> NULL]
                  ELSE pc'[r] = "category_create"]_vars

\* two requests that ran concurrently both answered 201 and their categories
\* carry the same code
DuplicateCategoryCode ==
    \E a, b \in Reqs, c, d \in categories :
        /\ a # b /\ b \in hist[a].overlap
        /\ Kind(a) = "category" /\ Done(a) /\ Code(a) = 201 /\ resp[a].body = c.id
        /\ Kind(b) = "category" /\ Done(b) /\ Code(b) = 201 /\ resp[b].body = d.id
        /\ c.id # d.id
        /\ c.categoryId = d.categoryId

\* C24: placeOrder refuses in a fixed order: a missing field is answered 400
\* whatever the email and the product are; then an unknown email is answered
\* 404 whatever the product is; then a missing product is answered 404; then a
\* quantity above the stock is answered 400. Every refusal leaves the tables
\* as they were and nothing of the request waits to be written.
PlaceOrderRefusalOrder ==
    [][\A r \in Reqs :
          (Kind(r) = "place" /\ Steps(r)) =>
            LET refused(code, msg) ==
                    /\ pc'[r] = "done"
                    /\ resp'[r].code = code /\ resp'[r].msg = msg
                    /\ store' = store
                    /\ pend'[r] = NoPend
            IN
            /\ pc[r] = "place" =>
                  IF ~req[r].complete
                     THEN refused(400, "All fields are required")
                     ELSE pc'[r] = "place_user"
            /\ pc[r] = "place_user" =>
                  IF req[r].email \notin Users
                     THEN refused(404, "User not found")
                     ELSE pc'[r] = "place_product"
            /\ pc[r] = "place_product" =>
                  IF req[r].productId \notin Products
                     THEN refused(404, "Product not found")
                     ELSE IF stock[req[r].productId] < req[r].quantity
                             THEN refused(400, "Only N items left in stock")
                             ELSE pc'[r] = "place_save"]_vars

\* a body with a missing field, an unknown email and an unknown product was
\* answered for the missing field
MissingFieldAnsweredFirst ==
    \E r \in Reqs :
        /\ Kind(r) = "place" /\ Done(r) /\ hist[r].several
        /\ resp[r] = [code |-> 400, msg |-> "All fields are required", body |-> NULL]

\* C25: addToCart, once it found the product, and updateCartQuantity, once it
\* found the cart row, go on only when the requested quantity is at most the
\* stock the handler read (equal is enough); otherwise they answer 400 'Only N
\* items left in stock' with that stock and the cart stays as it was.
CartStockCheck ==
    [][\A r \in Reqs :
          Steps(r) =>
            LET q == req[r].quantity
                refused(n) ==
                    /\ pc'[r] = "done"
                    /\ resp'[r] = [code |-> 400, msg |-> "Only N items left in stock",
                                   body |-> n]
                    /\ carts' = carts
            IN
            /\ (pc[r] = "add_product" /\ req[r].productId \in Products) =>
                  IF q <= stock[req[r].productId]
                     THEN pc'[r] = "add_cart"
                     ELSE refused(stock[req[r].productId])
            /\ (/\ pc[r] = "update_cart"
                /\ \E c \in carts : c.userId = loc[r].userId
                                    /\ c.productId = req[r].productId) =>
                  IF q <= loc[r].stock
                     THEN pc'[r] = "update_save"
                     ELSE refused(loc[r].stock)
            /\ (pc[r] = "update_save" /\ resp'[r].code = 200) => q <= loc[r].stock]_vars

\* one addToCart was refused with the stock that is left, another put exactly
\* that many items in the cart
LastItemsAddedAfterRefusal ==
    \E a, b \in Reqs, c \in carts :
        /\ Kind(a) = "add" /\ Done(a)
        /\ resp[a] = [code |-> 400, msg |-> "Only N items left in stock",
                      body |-> stock[c.productId]]
        /\ Kind(b) = "add" /\ Done(b) /\ Code(b) = 200 /\ resp[b].body = c.id
        /\ c.quantity = stock[c.productId]

\* C26: no placeOrder request that has been answered, whatever the answer,
\* still has its transaction open.
AnsweredOrderClosedTransaction ==
    \A r \in Reqs :
        (Kind(r) = "place" /\ Done(r)) => txn[r] # "open"

\* C27: every placeOrder request is answered in the end, whatever happened to
\* the placeOrder requests before it: the requests all arrive, so a time comes
\* when all of them have their response.
EveryOrderAnswered ==
    <>(\A r \in Reqs : pc[r] = "done")

\* C28: of two cancelOrder requests for the same order that ran concurrently,
\* at most one was answered 200 'Order cancelled successfully'; the other one
\* was answered 400.
OneCancelSucceeds ==
    \A a, b \in Reqs :
        ( /\ a # b /\ b \in hist[a].overlap
          /\ Kind(a) = "cancel" /\ Done(a) /\ Code(a) = 200
          /\ Kind(b) = "cancel" /\ Done(b)
          /\ resp[b].msg \in {"Order cancelled successfully", "Order is already cancelled"}
          /\ \E o \in orders : o.id = resp[a].body )
        => (Code(b) = 400 \/ resp[b].body # resp[a].body)

\* C29: when an addToCart request saves a row to which the one request that ran
\* beside it, another addToCart answered 200, has added as well, the save adds
\* the request's quantity to the quantity the row has by then: the other
\* request's addition is still in the row.
ConcurrentAddsBothCount ==
    [][\A r \in Reqs :
          ( /\ pc[r] = "add_save" /\ Steps(r) /\ resp'[r].code = 200
            /\ \E b \in Reqs :
                  /\ hist[r].overlap = {b}
                  /\ Kind(b) = "add" /\ Done(b) /\ Code(b) = 200
                  /\ resp[b].body = loc[r].rowId )
          => \A c \in carts :
                c.id = loc[r].rowId =>
                  \E n \in carts' :
                      n.id = c.id /\ n.quantity = c.quantity + req[r].quantity]_vars

\* C30: right after addToCart or updateCartQuantity answered 200, the quantity of
\* the row they wrote is at most the stock of its product.
CartRowWithinStock ==
    [][\A r \in Reqs :
          ( /\ pc[r] \in {"add_create", "add_save", "update_save"}
            /\ Steps(r) /\ resp'[r].code = 200 )
          => \A n \in carts' :
                n.id = resp'[r].body => n.quantity <= stock'[n.productId]]_vars
====
